---- MODULE Spec2Model ----
(***************************************************************************)
(* A model of the two programs of the repository:                          *)
(*   talents.py   the talent path evaluator (enumerate the 2^7 paths,      *)
(*                resolve each on every goal's class, filter by priority)  *)
(*   training.py  the leveling simulator (Monte Carlo runs of a level-up   *)
(*                loop over a tier's ascension requirements)               *)
(* Each program has its own specification: SpecTalents and SpecTraining    *)
(* (LiveTraining adds the fairness of a sequential program that keeps      *)
(* executing its next statement).  SpecCompute is one call of training's   *)
(* compute with arguments of the caller's choice.                          *)
(***************************************************************************)
EXTENDS Integers, Sequences, FiniteSets, TLC

VARIABLES
    \* ---- talents.py
    files,          \* the XML files named on the command line, parsed
    argv,           \* opt.goal: the tokens of the positional argument
    classes,        \* data.classes: name -> ClassTalents (count, branches)
    goals,          \* main: goals, a list of Goal(cls, priorities)
    results,        \* main: results[path][cls.name] -> TalentCounter
    best_paths,     \* main: best_paths, a list of paths
    idx_priority,   \* main: the round of the outer loop (0-based)
    goal_idx,       \* main: position in "for g in goals" (1-based)
    pc,             \* talents.main: "load", "start", "filter", "done", "error", "idle"
    error,          \* the exception that ended talents.main, or "none"
    \* ---- training.py
    heap,           \* list objects: reference -> list of int
    asc,            \* compute: the list object local asc names
    max_batch,      \* compute: parameter steps (1, then 10)
    step,           \* compute: parameter step, a Step(xp, chance)
    num_runs,       \* compute: parameter num_runs
    run,            \* compute: number of runs started
    level,          \* compute: level
    successes,      \* compute: successes
    do_steps,       \* compute: do_steps of the latest iteration
    odds,           \* compute: the percentages printed, one per invocation
    tpc             \* training.main: "main", "for", "while", "return", "error", "idle"

talentVars == <<files, argv, classes, goals, results, best_paths, idx_priority, goal_idx, pc, error>>
trainingVars == <<heap, asc, max_batch, step, num_runs, run, level, successes,
                  do_steps, odds, tpc>>
vars == <<talentVars, trainingVars>>

(***************************************************************************)
(* talents.py: the data model                                              *)
(***************************************************************************)

\* class Step(Enum): the values of the closed set of stat kinds
Step == {"talent", "attack", "defense", "health", "heal", "critical", "mana"}

\* TalentCounter.__init__: every step at 0
TalentCounter == [s \in Step |-> 0]

\* TalentCounter.add(rhs) with rhs a Step: self[rhs] += 1
AddStep(self, rhs) == [self EXCEPT ![rhs] = @ + 1]

\* TalentCounter.add(rhs) with rhs a TalentCounter: self[k] += v for every item
AddCounter(self, rhs) ==
    [k \in DOMAIN self |-> IF k \in DOMAIN rhs THEN self[k] + rhs[k] ELSE self[k]]

\* An XML element: its tag and, for a split, the step tags of each branch.
Tag(t) == [tag |-> t, branches |-> <<>>]
Split(b0, b1) == [tag |-> "split", branches |-> <<b0, b1>>]

\* Step.from_text: the member whose value is text, or ValueError
from_text(text) == [raised |-> text \notin Step, value |-> text]

\* from_xml, lines 61-63: the counter of one <branch>; from_text raises
\* ValueError on a tag that is no step, and nothing here catches it
RECURSIVE BranchCounter(_, _)
BranchCounter(b, tags) ==
    IF tags = <<>> THEN [raised |-> FALSE, value |-> b]
    ELSE LET s == from_text(Head(tags)) IN
         IF s.raised THEN [raised |-> TRUE, value |-> b]
         ELSE BranchCounter(AddStep(b, s.value), Tail(tags))

\* from_xml, lines 59-64: the counters of the branches i.. of one <split>
RECURSIVE SplitCounters(_, _, _)
SplitCounters(branches, i, split) ==
    IF i > Len(branches) THEN [raised |-> FALSE, value |-> split]
    ELSE LET b == BranchCounter(TalentCounter, branches[i]) IN
         IF b.raised THEN [raised |-> TRUE, value |-> split]
         ELSE SplitCounters(branches, i + 1, Append(split, b.value))

\* from_xml, lines 54-65: the loop over the children of <class>.  The
\* ValueError of a child's own tag is caught (line 57); one raised inside the
\* handler, by a tag of a <branch>, leaves from_xml
RECURSIVE FromXmlSteps(_, _)
FromXmlSteps(talents, children) ==
    IF children = <<>> THEN [raised |-> FALSE, value |-> talents]
    ELSE LET el == Head(children)
             s == from_text(el.tag)
         IN  IF ~s.raised
             THEN FromXmlSteps([talents EXCEPT !.count = AddStep(@, s.value)],
                               Tail(children))
             ELSE IF el.tag = "split"
             THEN LET split == SplitCounters(el.branches, 1, <<>>) IN
                  IF split.raised THEN [raised |-> TRUE, value |-> talents]
                  ELSE FromXmlSteps([talents EXCEPT !.branches = Append(@, split.value)],
                                    Tail(children))
             ELSE FromXmlSteps(talents, Tail(children))

\* ClassTalents.__init__: ValueError unless the name is true ("" stands for
\* the empty name and for a missing name attribute, None)
ClassTalents(name) ==
    [raised |-> name = "",
     value |-> [name |-> name, count |-> TalentCounter, branches |-> <<>>]]

\* ClassTalents.from_xml
FromXml(xml) ==
    LET talents == ClassTalents(xml.name) IN
    IF talents.raised THEN talents
    ELSE FromXmlSteps(talents.value, xml.children)

\* Data.read: classes[cls.name] = cls for every <class> of the file, later
\* ones overriding; an exception of from_xml leaves read
RECURSIVE Read(_, _)
Read(db, xmls) ==
    IF xmls = <<>> THEN [raised |-> FALSE, classes |-> db]
    ELSE LET cls == FromXml(Head(xmls)) IN
         IF cls.raised THEN [raised |-> TRUE, classes |-> db]
         ELSE Read([n \in DOMAIN db \cup {cls.value.name} |->
                       IF n = cls.value.name THEN cls.value ELSE db[n]], Tail(xmls))

\* Data.from_files, lines 92-96: read the files i.. in order
RECURSIVE ReadFiles(_, _, _)
ReadFiles(db, filenames, i) ==
    IF i > Len(filenames) THEN [raised |-> FALSE, classes |-> db]
    ELSE LET r == Read(db, filenames[i]) IN
         IF r.raised THEN r ELSE ReadFiles(r.classes, filenames, i + 1)

\* Data.from_files: the ValueError of a class is re-raised, and no class at
\* all is a RuntimeError
FromFiles(filenames) ==
    LET r == ReadFiles(<<>>, filenames, 1) IN
    IF r.raised THEN [raised |-> TRUE, error |-> "ValueError", classes |-> r.classes]
    ELSE IF DOMAIN r.classes = {}
    THEN [raised |-> TRUE, error |-> "RuntimeError", classes |-> r.classes]
    ELSE [raised |-> FALSE, error |-> "none", classes |-> r.classes]

\* step_map
step_map == [c \in {"a", "c", "d", "h", "l", "m", "t"} |->
    CASE c = "a" -> "attack"
      [] c = "c" -> "critical"
      [] c = "d" -> "defense"
      [] c = "h" -> "health"
      [] c = "l" -> "heal"
      [] c = "m" -> "mana"
      [] c = "t" -> "talent"]

\* parse_priorities: [step_map[p] for p in string], KeyError on a letter that
\* step_map does not have
parse_priorities(string) ==
    IF \E i \in 1..Len(string) : string[i] \notin DOMAIN step_map
    THEN [raised |-> TRUE, value |-> <<>>]
    ELSE [raised |-> FALSE, value |-> [i \in 1..Len(string) |-> step_map[string[i]]]]

\* product(range(2), repeat=7): the width of the search
PathLength == 7

\* product(range(2), repeat=n) in itertools' order
RECURSIVE Product(_)
Product(n) ==
    IF n = 0 THEN << <<>> >>
    ELSE LET prev == Product(n - 1) IN
         [i \in 1..(2 * Len(prev)) |->
             Append(prev[(i + 1) \div 2], (i + 1) % 2)]

AllPaths == Product(PathLength)

(***************************************************************************)
(* talents.py: ClassTalents.count_path.  The class and its counters are    *)
(* mutable objects: the evaluation state carries the class (self) next to  *)
(* the result, and count_path returns the class as it leaves it.           *)
(***************************************************************************)

\* count_path, line 80: result = TalentCounter(), a fresh object
NewResult(self) == [self |-> self, result |-> TalentCounter]

\* count_path, lines 81 and 83: result.add(rhs)
AddToResult(st, rhs) == [st EXCEPT !.result = AddCounter(@, rhs)]

\* A slip: self.count.add(split[int(where)]), the selected alternative goes
\* into the class's base counter instead of the result
RECURSIVE AddSplitsIntoBase(_, _, _)
AddSplitsIntoBase(st, path, i) ==
    IF i > Len(st.self.branches) \/ i > Len(path) THEN st
    ELSE AddSplitsIntoBase(
             [st EXCEPT !.self.count = AddCounter(@, st.self.branches[i][path[i] + 1])],
             path, i + 1)

\* count_path, lines 82-83: for split, where in zip(self.branches, path)
RECURSIVE AddSplits(_, _, _)
AddSplits(st, path, i) ==
    IF i > Len(st.self.branches) \/ i > Len(path) THEN st
    ELSE AddSplits(AddToResult(st, st.self.branches[i][path[i] + 1]), path, i + 1)

\* A slip: no length check, zip() silently stops at the shorter sequence
BadLengthUnchecked(self, path) == FALSE

\* count_path, lines 76-79: the length check
BadLength(self, path) == Len(path) # Len(self.branches)

\* ClassTalents.count_path: raised (ValueError), the class afterwards, the result
CountPath(self, path) ==
    IF BadLength(self, path)
    THEN [raised |-> TRUE, self |-> self, result |-> TalentCounter]
    ELSE LET st0 == NewResult(self)
             st1 == AddToResult(st0, st0.self.count)
             st2 == AddSplits(st1, path, 1)
         IN  [raised |-> FALSE, self |-> st2.self, result |-> st2.result]

\* main, line 154: {g.cls.name: g.cls.count_path(path) for g in goals}
RECURSIVE ResolveGoals(_, _, _, _, _)
ResolveGoals(db, gs, path, j, row) ==
    IF j > Len(gs) THEN [raised |-> FALSE, db |-> db, row |-> row]
    ELSE LET name == gs[j].cls
             r == CountPath(db[name], path)
         IN  IF r.raised THEN [raised |-> TRUE, db |-> db, row |-> row]
             ELSE ResolveGoals([db EXCEPT ![name] = r.self], gs, path, j + 1,
                      [n \in DOMAIN row \cup {name} |->
                          IF n = name THEN r.result ELSE row[n]])

\* main, lines 153-156: results = {path: {...} for path in best_paths}, the
\* paths lo..hi in order (the range is halved to keep the evaluation shallow)
RECURSIVE ResolvePaths(_, _, _, _, _)
ResolvePaths(db, gs, paths, lo, hi) ==
    IF lo > hi THEN [raised |-> FALSE, db |-> db, results |-> <<>>]
    ELSE IF lo = hi
    THEN LET r == ResolveGoals(db, gs, paths[lo], 1, <<>>) IN
         IF r.raised THEN [raised |-> TRUE, db |-> r.db, results |-> <<>>]
         ELSE [raised |-> FALSE, db |-> r.db, results |-> (paths[lo] :> r.row)]
    ELSE LET mid == (lo + hi) \div 2
             first == ResolvePaths(db, gs, paths, lo, mid)
             second == ResolvePaths(first.db, gs, paths, mid + 1, hi)
         IN  IF first.raised THEN first
             ELSE IF second.raised THEN second
             ELSE [raised |-> FALSE, db |-> second.db,
                   results |-> second.results @@ first.results]

(***************************************************************************)
(* talents.py: main, the filtering rounds                                  *)
(***************************************************************************)

\* A slip: the running maximum starts at 1
FilterStartAtOne == [new_paths |-> <<>>, current_max |-> 1]

\* main, line 164: current_max = 0 (with new_paths = [])
FilterStart == [new_paths |-> <<>>, current_max |-> 0]

\* A slip: >= for >, so a tie restarts the list and only the last tie is kept
FilterBodyRestartOnTie(acc, path, val) ==
    IF val >= acc.current_max
    THEN [new_paths |-> <<path>>, current_max |-> val]
    ELSE acc

\* A slip: a larger value raises the maximum but keeps the paths found so far
FilterBodyNoRestart(acc, path, val) ==
    IF val > acc.current_max
    THEN [new_paths |-> Append(acc.new_paths, path), current_max |-> val]
    ELSE IF val = acc.current_max
         THEN [acc EXCEPT !.new_paths = Append(@, path)]
         ELSE acc

\* main, lines 166-171: the body of "for path in best_paths"
FilterBody(acc, path, val) ==
    IF val > acc.current_max
    THEN [new_paths |-> <<path>>, current_max |-> val]
    ELSE IF val = acc.current_max
         THEN [acc EXCEPT !.new_paths = Append(@, path)]
         ELSE acc

\* main, lines 165-171: for path in best_paths, the paths lo..hi in order.
\* The range is halved to keep the evaluation shallow; the test on the first
\* half's result (a list is never shorter than 0) only makes TLC finish the
\* first half before it starts the second, as the loop does.
RECURSIVE FilterLoop(_, _, _, _, _, _, _)
FilterLoop(paths, lo, hi, res, name, prio, acc) ==
    IF lo > hi THEN acc
    ELSE IF lo = hi
    THEN FilterBody(acc, paths[lo], res[paths[lo]][name][prio])
    ELSE LET mid == (lo + hi) \div 2
             first == FilterLoop(paths, lo, mid, res, name, prio, acc)
         IN  IF Len(first.new_paths) >= 0
             THEN FilterLoop(paths, mid + 1, hi, res, name, prio, first)
             ELSE first

\* main, lines 163-172: the new best_paths of one goal in one round
FilterPaths(paths, res, name, prio) ==
    FilterLoop(paths, 1, Len(paths), res, name, prio, FilterStart).new_paths

\* max((len(g.priorities) for g in goals)), line 157: ValueError when there
\* is no goal, max() of an empty sequence
MaxPriorities(gs) ==
    IF gs = <<>> THEN [raised |-> TRUE, value |-> 0]
    ELSE LET lens == {Len(gs[j].priorities) : j \in 1..Len(gs)} IN
         [raised |-> FALSE, value |-> CHOOSE m \in lens : \A n \in lens : n <= m]

(***************************************************************************)
(* talents.py: the inputs.  classes.xml is not part of the sources; the    *)
(* files below are what ET.parse returns for it and for the files of -i:   *)
(* a file is the list of its <class> elements.                             *)
(***************************************************************************)

\* Longest priority string of a goal
MaxPrioLen == 2

\* The priority codes the goals use
PrioCodes == {"a", "d"}

PrioStrings == UNION {[1..n -> PrioCodes] : n \in 0..MaxPrioLen}

\* A <class> with some base steps, a tag from_xml ignores, and n splits that
\* repeat a pattern
ClassXml(name, base, pattern, n) ==
    [name |-> name,
     children |-> [i \in 1..Len(base) |-> Tag(base[i])] \o <<Tag("note")>> \o
                  [i \in 1..n |-> pattern[((i - 1) % Len(pattern)) + 1]]]

PatternTrade == << Split(<<"attack">>, <<"defense">>),
                  Split(<<"health">>, <<"attack">>) >>
PatternMixed == << Split(<<"defense", "health">>, <<"attack">>),
                  Split(<<"mana">>, <<"critical">>),
                  Split(<<"attack">>, <<"attack">>) >>
PatternHeal == << Split(<<"heal">>, <<"defense">>),
                 Split(<<"defense", "defense">>, <<"attack", "mana">>) >>
\* A split with a branch that holds a tag that is no step
PatternNote == << Split(<<"note", "attack">>, <<"defense">>) >>

\* classes.xml with a Fighter and a Cleric of 7 splits each
ClassesXml(pa) ==
    << ClassXml("Fighter", <<"attack", "talent">>, pa, PathLength),
       ClassXml("Cleric", <<"heal">>, PatternHeal, PathLength) >>

\* The files of a run: classes.xml alone, or followed by a file of -i that
\* redefines the Cleric with 6 splits; and files that cannot be loaded: a
\* branch with a tag that is no step, a class without a name, no class at all
XmlFiles ==
    { <<ClassesXml(pa)>> : pa \in {PatternTrade, PatternMixed} }
    \cup { <<ClassesXml(pa), <<ClassXml("Cleric", <<"heal">>, PatternTrade, PathLength - 1)>> >> :
             pa \in {PatternTrade, PatternMixed} }
    \cup { << <<ClassXml("Fighter", <<"attack">>, PatternNote, PathLength)>> >>,
           << <<ClassXml("", <<"attack">>, PatternTrade, PathLength)>> >>,
           << <<>> >> }

\* The command line: a class name and a priority string, once or twice; and
\* command lines with a class that no file has, with a letter that is no
\* priority, with a name alone (nargs="+" accepts one token) and with a third
\* token that zip leaves unpaired
ClassNames == {"Fighter", "Cleric"}
GoalArgs == ClassNames \X PrioStrings
CommandLines ==
    {<<a[1], a[2]>> : a \in GoalArgs}
    \cup {<<a[1], a[2], b[1], b[2]>> : a, b \in GoalArgs}
    \cup { <<"Rogue", <<"a">>>>, <<"Fighter", <<"x">>>>, <<"Fighter">>,
           <<"Fighter", <<"a">>, "Cleric">> }

\* Goal(data.classes[n], parse_priorities(p)): the class is held by name
Goal(n, p) == [cls |-> n, priorities |-> p]

\* main, lines 147-150: goals = [Goal(data.classes[n], parse_priorities(p))
\* for n, p in zip(opt.goal[0::2], opt.goal[1::2])], KeyError on a name that
\* data.classes does not have or a letter that step_map does not have
MakeGoals(db, tokens) ==
    LET pairs == Len(tokens) \div 2 IN
    IF \E i \in 1..pairs : \/ tokens[2 * i - 1] \notin DOMAIN db
                           \/ parse_priorities(tokens[2 * i]).raised
    THEN [raised |-> TRUE, value |-> <<>>]
    ELSE [raised |-> FALSE,
          value |-> [i \in 1..pairs |->
                       Goal(tokens[2 * i - 1], parse_priorities(tokens[2 * i]).value)]]

(***************************************************************************)
(* talents.py: main                                                        *)
(***************************************************************************)

TrainingIdle ==
    /\ heap = <<>> /\ asc = "unbound" /\ max_batch = 0 /\ step = [xp |-> 0, chance |-> 0]
    /\ num_runs = 0 /\ run = 0 /\ level = 0 /\ successes = 0 /\ do_steps = 0
    /\ odds = <<>> /\ tpc = "idle"

\* main, line 144: the command line is parsed, nothing is loaded yet
InitTalents ==
    /\ files \in XmlFiles
    /\ argv \in CommandLines
    /\ classes = <<>>
    /\ goals = <<>>
    /\ results = <<>>
    /\ best_paths = <<>>
    /\ idx_priority = 0
    /\ goal_idx = 1
    /\ pc = "load"
    /\ error = "none"
    /\ TrainingIdle

\* main, lines 146-150: load the files and build the goals; an exception of
\* either ends the program.  from_files raises before data is bound; the
\* KeyError of the goals leaves main with data bound and goals not
Load ==
    /\ pc = "load"
    /\ LET data == FromFiles(files) IN
       IF data.raised
       THEN /\ pc' = "error"
            /\ error' = data.error
            /\ UNCHANGED <<classes, goals>>
       ELSE /\ classes' = data.classes
            /\ LET gs == MakeGoals(data.classes, argv) IN
               IF gs.raised
               THEN /\ pc' = "error"
                    /\ error' = "KeyError"
                    /\ UNCHANGED goals
               ELSE /\ pc' = "start"
                    /\ goals' = gs.value
                    /\ UNCHANGED error
    /\ UNCHANGED <<files, argv, results, best_paths, idx_priority, goal_idx, trainingVars>>

\* main, lines 152-157: enumerate the paths, resolve each for every goal, and
\* compute the number of rounds.  best_paths is bound before the first path
\* is resolved, results only when all are; count_path's ValueError and max's
\* end the program
Evaluate ==
    /\ pc = "start"
    /\ best_paths' = AllPaths
    /\ LET r == ResolvePaths(classes, goals, AllPaths, 1, Len(AllPaths)) IN
       /\ classes' = r.db
       /\ IF r.raised
          THEN /\ pc' = "error"
               /\ error' = "ValueError"
               /\ UNCHANGED results
          ELSE /\ results' = r.results
               /\ IF MaxPriorities(goals).raised
                  THEN /\ pc' = "error"
                       /\ error' = "ValueError"
                  ELSE /\ pc' = "filter"
                       /\ UNCHANGED error
    /\ UNCHANGED <<files, argv, goals, idx_priority, goal_idx, trainingVars>>

\* The next iteration of the loops of lines 157-158
Advance ==
    IF goal_idx < Len(goals)
    THEN /\ goal_idx' = goal_idx + 1
         /\ UNCHANGED idx_priority
    ELSE /\ goal_idx' = 1
         /\ idx_priority' = idx_priority + 1

\* main, lines 158-172: one goal of one round that has a priority at the index
FilterGoal ==
    /\ pc = "filter"
    /\ idx_priority < MaxPriorities(goals).value
    /\ idx_priority < Len(goals[goal_idx].priorities)
    /\ best_paths' = FilterPaths(best_paths, results, goals[goal_idx].cls,
                                 goals[goal_idx].priorities[idx_priority + 1])
    /\ Advance
    /\ UNCHANGED <<files, argv, classes, goals, results, pc, error, trainingVars>>

\* main, lines 159-162: IndexError, continue
SkipGoal ==
    /\ pc = "filter"
    /\ idx_priority < MaxPriorities(goals).value
    /\ idx_priority >= Len(goals[goal_idx].priorities)
    /\ Advance
    /\ UNCHANGED <<files, argv, classes, goals, results, best_paths, pc, error, trainingVars>>

\* main, lines 173-176: the rounds are over, print the surviving paths
Output ==
    /\ pc = "filter"
    /\ idx_priority >= MaxPriorities(goals).value
    /\ pc' = "done"
    /\ UNCHANGED <<files, argv, classes, goals, results, best_paths, idx_priority,
                   goal_idx, error, trainingVars>>

NextTalents == Load \/ Evaluate \/ FilterGoal \/ SkipGoal \/ Output

SpecTalents == InitTalents /\ [][NextTalents]_vars

(***************************************************************************)
(* talents.py: the properties                                              *)
(***************************************************************************)

Range(seq) == {seq[i] : i \in 1..Len(seq)}

\* The value of stat s on path p for class cls, by definition: the base count
\* plus the count of the selected alternative of each of the first n branches
RECURSIVE SelectedSum(_, _, _, _)
SelectedSum(cls, p, s, n) ==
    IF n = 0 THEN cls.count[s]
    ELSE SelectedSum(cls, p, s, n - 1) + cls.branches[n][p[n] + 1][s]

PathStat(cls, p, s) == SelectedSum(cls, p, s, Len(cls.branches))

\* A key is a sequence of (class name, stat); the tuple of a path under a key
PathKey(p, key) == [i \in 1..Len(key) |-> PathStat(classes[key[i][1]], p, key[i][2])]

RECURSIVE LexLess(_, _, _)
LexLess(t, u, i) ==
    /\ i <= Len(t)
    /\ \/ t[i] < u[i]
       \/ t[i] = u[i] /\ LexLess(t, u, i + 1)

\* The lexicographically largest tuple of the paths lo..hi of AllPaths
RECURSIVE MaxKey(_, _, _)
MaxKey(key, lo, hi) ==
    IF lo = hi THEN PathKey(AllPaths[lo], key)
    ELSE LET mid == (lo + hi) \div 2
             a == MaxKey(key, lo, mid)
             b == MaxKey(key, mid + 1, hi)
         IN  IF LexLess(a, b, 1) THEN b ELSE a

LexMaximal(key) ==
    LET best == MaxKey(key, 1, Len(AllPaths)) IN
    {p \in Range(AllPaths) : PathKey(p, key) = best}

\* The priorities of one goal, as a key on that goal's class
GoalKey(g) == [i \in 1..Len(g.priorities) |-> <<g.cls, g.priorities[i]>>]

\* The priorities of all goals in the order of the rounds: round by round, and
\* within a round goal by goal
RECURSIVE RoundKey(_, _, _)
RoundKey(gs, idx, j) ==
    IF idx > MaxPriorities(gs).value THEN <<>>
    ELSE IF j > Len(gs) THEN RoundKey(gs, idx + 1, 1)
    ELSE (IF idx <= Len(gs[j].priorities)
          THEN << <<gs[j].cls, gs[j].priorities[idx]>> >> ELSE <<>>)
         \o RoundKey(gs, idx, j + 1)

FewerBranches == \E j \in 1..Len(goals) : Len(classes[goals[j].cls].branches) < PathLength

\* C1: with a single goal, the paths that survive all rounds are exactly the
\* paths whose tuple of stat values, in priority order, is lexicographically
\* maximal over all 2^7 candidates; with a single priority they are exactly the
\* paths that reach the global maximum of that stat.
C1_SingleGoalLexMax ==
    (pc = "done" /\ Len(goals) = 1) =>
        /\ Range(best_paths) = LexMaximal(GoalKey(goals[1]))
        /\ Len(goals[1].priorities) = 1 =>
              LET cls == classes[goals[1].cls]
                  s == goals[1].priorities[1]
              IN  Range(best_paths) =
                     {p \in Range(AllPaths) :
                         \A q \in Range(AllPaths) : PathStat(cls, q, s) <= PathStat(cls, p, s)}

\* C1 happens: a single goal with two priorities whose search ended with some
\* paths eliminated
C1_Witness ==
    /\ pc = "done" /\ Len(goals) = 1 /\ Len(goals[1].priorities) = 2
    /\ Len(best_paths) < Len(AllPaths)

\* C2 as stated: with two goals every surviving path is, for each goal, lexico-
\* graphically maximal in that goal's own priorities among all candidates.
C2_OptimalForEveryGoal ==
    (pc = "done" /\ Len(goals) = 2) =>
        \A p \in Range(best_paths) : \A j \in 1..2 :
            p \in LexMaximal(GoalKey(goals[j]))

\* C2 amended: with two goals every surviving path is lexicographically maximal,
\* among all candidates, in the priorities of both goals taken in the order of
\* the rounds (goal 1's first, goal 2's first, goal 1's second, ...), each
\* resolved on its goal's class.
C2_OptimalInRoundOrder ==
    (pc = "done" /\ Len(goals) = 2) =>
        Range(best_paths) \subseteq LexMaximal(RoundKey(goals, 1, 1))

\* C2 happens: two goals on different classes, both with priorities, and the
\* search ended with some paths eliminated
C2_Witness ==
    /\ pc = "done" /\ Len(goals) = 2 /\ goals[1].cls # goals[2].cls
    /\ Len(goals[1].priorities) = 2 /\ Len(goals[2].priorities) = 2
    /\ Len(best_paths) < Len(AllPaths)

\* C3 as stated: a goal's class with fewer branches than the search width is not
\* rejected; every path is resolved on it by the matching prefix of selectors,
\* and the search completes with a surviving set.
C3_FewerBranchesTolerated ==
    (FewerBranches /\ pc # "start") =>
        /\ pc \in {"filter", "done"}
        /\ best_paths # <<>>
        /\ \A p \in Range(AllPaths) : \A j \in 1..Len(goals) : \A s \in Step :
              results[p][goals[j].cls][s] = PathStat(classes[goals[j].cls], p, s)

\* C3 amended: a goal's class with fewer branches than the search width is
\* rejected: count_path raises ValueError on the first path it is asked to
\* resolve for it, which ends the program: no results exist, the candidate
\* paths are never filtered, and no round is run.
C3_FewerBranchesRejected ==
    (FewerBranches /\ pc # "start") =>
        /\ pc = "error" /\ error = "ValueError"
        /\ results = <<>>
        /\ best_paths = AllPaths
        /\ idx_priority = 0 /\ goal_idx = 1

\* C3 happens: the evaluation of two goals, the second on a class with 6
\* branches, has ended with the 128 candidate paths enumerated
C3_Witness ==
    /\ FewerBranches /\ pc = "error" /\ Len(goals) = 2
    /\ Len(classes[goals[1].cls].branches) = PathLength
    /\ Len(best_paths) = 128

\* C9: for a class with 7 branches, resolving any path of length 7 yields, for
\* every stat, the base count plus the selected alternatives' counts, whatever
\* was resolved before: resolving leaves the class (base and branches) unchanged.
C9_ResolveIsBasePlusSelected ==
    [][(pc = "start" /\ pc' = "filter") =>
          /\ classes' = classes
          /\ DOMAIN results' = Range(AllPaths)
          /\ \A p \in Range(AllPaths) : \A j \in 1..Len(goals) : \A s \in Step :
                results'[p][goals[j].cls][s] = PathStat(classes[goals[j].cls], p, s)]_vars

\* C9 happens: all paths are resolved, and some path gained attack over the base
C9_Witness ==
    /\ pc = "filter" /\ DOMAIN results = Range(AllPaths)
    /\ \E p \in Range(AllPaths) : \E j \in 1..Len(goals) :
          results[p][goals[j].cls]["attack"] > classes[goals[j].cls].count["attack"]

\* C10: every goal's filter leaves a non-empty subset of the paths that survived
\* before it, a goal with no priority at the round's index leaves the paths
\* unchanged, and so the final result is never empty.
C10_FilterShrinksNeverEmpties ==
    [][/\ pc = "filter" =>
             /\ best_paths' # <<>>
             /\ Range(best_paths') \subseteq Range(best_paths)
             /\ idx_priority >= Len(goals[goal_idx].priorities) => best_paths' = best_paths
       /\ pc' \in {"filter", "done"} => best_paths' # <<>>]_vars

\* C10 happens: a search with a goal that was skipped in the second round has
\* ended with some paths eliminated
C10_Witness ==
    /\ pc = "done" /\ Len(goals) = 2
    /\ Len(goals[1].priorities) = 2 /\ Len(goals[2].priorities) = 1
    /\ Len(best_paths) < Len(AllPaths)

(***************************************************************************)
(* training.py: the data model                                             *)
(***************************************************************************)

\* steps, the training resources: Step(xp, chance) by rarity
steps == [r \in {1, 2} |->
    IF r = 1 THEN [xp |-> 180, chance |-> 2] ELSE [xp |-> 468, chance |-> 4]]

\* main, lines 117-118: compute is called with steps=1, then with steps=10
BatchSizes == <<1, 10>>

\* compute, line 69: the level that counts as a success
MaxLevel == 8

\* random.randrange(100)
Draws == 0..99

\* The list objects: the tier's ascensions, and the list compute's asc names
TierList == "ascensions"
RunList == "asc"

\* A slip: asc = ascensions, the tier's own list instead of a copy
SliceAliased(h, src) == [heap |-> h, ref |-> src]

\* compute, line 63: ascensions[:], a new list with the same items
Slice(h, src) ==
    [heap |-> [o \in DOMAIN h \cup {RunList} |-> IF o = RunList THEN h[src] ELSE h[o]],
     ref |-> RunList]

\* math.ceil(a / b) for b > 0
Ceil(a, b) == -((-a) \div b)

Min(a, b) == IF a <= b THEN a ELSE b

\* A slip: math.floor for math.ceil
DoStepsFloor(req, batch, xp) == Min(batch, req \div xp)

\* compute, line 66: do_steps = min(steps, math.ceil(asc[0] / step.xp))
DoSteps(req, batch, xp) == Min(batch, Ceil(req, xp))

\* A slip: the level rises by the size of the batch
LevelAfterByBatch(lvl, r, n, chance) == IF r < n * chance THEN lvl + n ELSE lvl

\* compute, lines 67-68: if random.randrange(100) < do_steps*step.chance: level += 1
LevelAfter(lvl, r, n, chance) == IF r < n * chance THEN lvl + 1 ELSE lvl

\* A slip: the test is against the level after the last one
ReachedOneLater(lvl) == lvl = MaxLevel + 1

\* compute, line 69: if level == 8
Reached(lvl) == lvl = MaxLevel

\* A slip: < for <=, a requirement met exactly stays in the list
ConsumeStrict(list, n, xp) ==
    LET left == list[1] - n * xp IN
    IF left < 0 THEN Tail(list) ELSE <<left>> \o Tail(list)

\* compute, lines 72-74: asc[0] -= do_steps*step.xp; if asc[0] <= 0: del asc[0]
Consume(list, n, xp) ==
    LET left == list[1] - n * xp IN
    IF left <= 0 THEN Tail(list) ELSE <<left>> \o Tail(list)

(***************************************************************************)
(* training.py: the inputs.  training.xml is not part of the sources; a    *)
(* tier's ascensions are a list of up to MaxAscLen requirements that       *)
(* alternates two values.  main passes compute one of the two resources    *)
(* of steps; a caller of compute may pass any Step.                        *)
(***************************************************************************)

\* Longest list of ascension requirements
MaxAscLen == 7

\* Largest number of runs (-n)
MaxRuns == 2

ReqValues == {0, 180, 400}

AscLists ==
    {[i \in 1..n |-> IF i % 2 = 1 THEN v[1] ELSE v[2]] :
        n \in 0..MaxAscLen, v \in ReqValues \X ReqValues}

\* main, line 114: step = steps[opt.source], source one of the choices (1, 2)
Resources == {steps[source] : source \in {1, 2}}

\* compute's parameter step: a resource of the program, or a Step whose draw
\* never fails
StepArgs == Resources \cup {[xp |-> 30, chance |-> 100]}

\* compute's parameter steps: the two batch sizes of the program
BatchArgs == {BatchSizes[i] : i \in 1..Len(BatchSizes)}

(***************************************************************************)
(* training.py: main and compute                                           *)
(***************************************************************************)

TalentsIdle ==
    /\ files = <<>> /\ argv = <<>> /\ classes = <<>> /\ goals = <<>> /\ results = <<>> /\ best_paths = <<>>
    /\ idx_priority = 0 /\ goal_idx = 0 /\ pc = "idle" /\ error = "none"

InitTraining ==
    /\ heap \in {[o \in {TierList} |-> l] : l \in AscLists}
    /\ step \in Resources
    /\ num_runs \in 0..MaxRuns
    /\ asc = "unbound"
    /\ max_batch = 0
    /\ run = 0
    /\ level = 0
    /\ successes = 0
    /\ do_steps = 0
    /\ odds = <<>>
    /\ tpc = "main"
    /\ TalentsIdle

\* main, lines 117-118, and compute, line 60: the next call of compute
Call ==
    /\ tpc \in {"main", "return"}
    /\ Len(odds) < Len(BatchSizes)
    /\ max_batch' = BatchSizes[Len(odds) + 1]
    /\ successes' = 0
    /\ run' = 0
    /\ tpc' = "for"
    /\ UNCHANGED <<heap, asc, step, num_runs, level, do_steps, odds, talentVars>>

\* compute, lines 62-64: the next run starts
StartRun ==
    /\ tpc = "for"
    /\ run < num_runs
    /\ run' = run + 1
    /\ LET s == Slice(heap, TierList) IN
       /\ heap' = s.heap
       /\ asc' = s.ref
    /\ level' = 1
    /\ tpc' = "while"
    /\ UNCHANGED <<max_batch, step, num_runs, successes, do_steps, odds, talentVars>>

\* compute, lines 65-74: one iteration of "while asc"
LoopStep ==
    /\ tpc = "while"
    /\ heap[asc] # <<>>
    /\ \E r \in Draws :
         LET n == DoSteps(heap[asc][1], max_batch, step.xp)
             lvl == LevelAfter(level, r, n, step.chance)
         IN  /\ do_steps' = n
             /\ level' = lvl
             /\ IF Reached(lvl)
                THEN /\ successes' = successes + 1
                     /\ tpc' = "for"
                     /\ UNCHANGED heap
                ELSE /\ heap' = [heap EXCEPT ![asc] = Consume(@, n, step.xp)]
                     /\ UNCHANGED <<successes, tpc>>
    /\ UNCHANGED <<asc, max_batch, step, num_runs, run, odds, talentVars>>

\* compute, line 65: asc is empty, the run ends without a success
ExitWhile ==
    /\ tpc = "while"
    /\ heap[asc] = <<>>
    /\ tpc' = "for"
    /\ UNCHANGED <<heap, asc, max_batch, step, num_runs, run, level, successes,
                   do_steps, odds, talentVars>>

\* compute, line 76: all runs are done, print successes/num_runs*100 (odds
\* records the operands) and return
Return ==
    /\ tpc = "for"
    /\ run >= num_runs
    /\ num_runs # 0
    /\ odds' = Append(odds, [steps |-> max_batch, successes |-> successes,
                             num_runs |-> num_runs])
    /\ tpc' = "return"
    /\ UNCHANGED <<heap, asc, max_batch, step, num_runs, run, level, successes,
                   do_steps, talentVars>>

\* compute, line 76 with -n 0: successes/num_runs raises ZeroDivisionError,
\* which ends the program
DivideByZero ==
    /\ tpc = "for"
    /\ run >= num_runs
    /\ num_runs = 0
    /\ tpc' = "error"
    /\ UNCHANGED <<heap, asc, max_batch, step, num_runs, run, level, successes,
                   do_steps, odds, talentVars>>

NextTraining == Call \/ StartRun \/ LoopStep \/ ExitWhile \/ Return \/ DivideByZero

SpecTraining == InitTraining /\ [][NextTraining]_vars

\* A sequential program keeps executing its next statement
LiveTraining == SpecTraining /\ WF_vars(NextTraining)

\* compute, lines 59-60: a call of compute with arguments of the caller's
\* choice, successes = 0
InitCompute ==
    /\ heap \in {[o \in {TierList} |-> l] : l \in AscLists}
    /\ step \in StepArgs
    /\ max_batch \in BatchArgs
    /\ num_runs \in 0..MaxRuns
    /\ asc = "unbound"
    /\ run = 0
    /\ level = 0
    /\ successes = 0
    /\ do_steps = 0
    /\ odds = <<>>
    /\ tpc = "for"
    /\ TalentsIdle

NextCompute == StartRun \/ LoopStep \/ ExitWhile \/ Return \/ DivideByZero

SpecCompute == InitCompute /\ [][NextCompute]_vars

\* main has returned from its last call of compute
Finished == tpc = "return" /\ Len(odds) = Len(BatchSizes)

\* main has ended, by returning or by an exception
Ended == Finished \/ tpc = "error"

(***************************************************************************)
(* training.py: the properties                                             *)
(***************************************************************************)

\* The tier's requirements, as compute's caller holds them
Requirements == heap[TierList]

\* max_batch resources clear every requirement in one step
ClearedInOneStep == \A i \in 1..Len(Requirements) : Requirements[i] <= max_batch * step.xp

PositiveRequirements == Cardinality({i \in 1..Len(Requirements) : Requirements[i] > 0})

\* C4 as stated: for any requirement list (here already for a non-empty one),
\* if the chance is 100 and max_batch clears every requirement in one step,
\* every run of a call of compute is a success.
C4_AlwaysSucceeds ==
    (/\ tpc = "return" /\ step.chance = 100 /\ ClearedInOneStep
     /\ Requirements # <<>>) =>
        successes = num_runs

\* C4 amended: if the chance is 100, max_batch clears every requirement in one
\* step and the list holds at least 7 positive requirements (one level-up for
\* each level from 1 to 8), every run is a success.
C4_AlwaysSucceedsWithSevenRequirements ==
    (/\ tpc = "return" /\ step.chance = 100 /\ ClearedInOneStep
     /\ PositiveRequirements >= MaxLevel - 1) =>
        successes = num_runs

\* C4 happens: two runs over seven positive requirements, each cleared by one
\* batch of a resource of chance 100, have both succeeded
C4_Witness ==
    /\ tpc = "return" /\ step.chance = 100 /\ ClearedInOneStep
    /\ PositiveRequirements >= MaxLevel - 1
    /\ num_runs = 2 /\ successes = 2

\* C5: a success is recorded exactly when the level reaches 8, at most once per
\* run, and the run takes no further step after it; a run that exhausts its
\* requirements below level 8 records none.  The level stays within 1..8 and
\* successes never exceeds the number of runs executed.
C5_SuccessExactlyAtLevelEight ==
    [][/\ (tpc = "while" /\ level' = MaxLevel) =>
             /\ successes' = successes + 1
             /\ tpc' = "for"
             /\ heap' = heap
       /\ (tpc = "while" /\ level' # MaxLevel) => successes' = successes
       /\ tpc # "while" => (successes' = successes \/ (tpc' = "for" /\ successes' = 0 /\ run' = 0))
       /\ tpc' = "while" => level' \in 1..(MaxLevel - 1)
       /\ run' > 0 => level' \in 1..MaxLevel
       /\ successes' <= run']_vars

\* C5 happens: the second run of the resource of chance 2 has ended at level 8
\* with a success recorded
C5_Witness ==
    /\ tpc = "for" /\ run = 2 /\ level = MaxLevel /\ successes >= 1 /\ step.chance = 2

\* C6: at every step the batch is min(max_batch, ceil(requirement / xp)): at
\* most max_batch and at most the smallest number of resources that clears the
\* requirement; a step that does not end the run reduces the requirement by
\* batch * xp and removes it exactly when that leaves <= 0, the requirements
\* after it untouched.
C6_BatchAndConsumption ==
    [][(tpc = "while" /\ heap[asc] # <<>>) =>
          LET req == heap[asc][1]
              left == req - do_steps' * step.xp
          IN  /\ do_steps' \in 0..max_batch
              /\ do_steps' = max_batch \/ do_steps' * step.xp >= req
              /\ do_steps' > 0 => (do_steps' - 1) * step.xp < req
              /\ tpc' = "while" =>
                    /\ left <= 0 => heap'[asc] = Tail(heap[asc])
                    /\ left > 0 => heap'[asc] = <<left>> \o Tail(heap[asc])]_vars

\* C6 happens: a batch capped at max_batch = 1 has left 220 of a requirement
\* of 400 (xp 180), with more requirements behind it
C6_Witness ==
    /\ tpc = "while" /\ max_batch = 1 /\ do_steps = 1 /\ step.xp = 180
    /\ Len(heap[asc]) > 1 /\ heap[asc][1] = 220

\* C7: every run terminates: every step of the loop that does not end the run
\* strictly reduces the first remaining requirement or removes it, and compute
\* finishes after num_runs runs (with -n 0 it ends at once, dividing by zero).
C7_Terminates ==
    /\ <>Ended
    /\ [](Ended => run = num_runs)
    /\ [][(tpc = "while" /\ tpc' = "while") =>
             \/ Len(heap'[asc]) < Len(heap[asc])
             \/ /\ Len(heap'[asc]) = Len(heap[asc])
                /\ heap'[asc][1] < heap[asc][1]]_vars

\* C7 happens: both calls have printed, the first for runs that did not all
\* succeed over a list of several requirements
C7_Witness ==
    /\ Finished /\ Len(Requirements) > 1 /\ num_runs = 2 /\ odds[1].successes < 2

\* C8: every run starts at level 1 with the complete requirement list, and
\* compute never changes the tier's list, so every call sees the same list.
C8_RunsShareNoState ==
    [][/\ heap'[TierList] = heap[TierList]
       /\ run' = run + 1 => (level' = 1 /\ heap'[asc'] = heap[TierList])]_vars

\* C8 happens: the second run of the second call has started, at level 1 with
\* the tier's whole list of several requirements
C8_Witness ==
    /\ tpc = "while" /\ Len(odds) = 1 /\ run = 2 /\ level = 1
    /\ Len(Requirements) > 1 /\ heap[asc] = Requirements

====
